---- MODULE Spec2Model ----
(***************************************************************************)
(* Model of the benchttp runner core: the bounded-concurrency dispatcher   *)
(* (dispatcher.Do and its predecessor semimpl.Do) and the Requester that   *)
(* feeds it the per-attempt closure and accumulates Records.               *)
(*                                                                         *)
(* One Do call is modelled step by step: the issuing goroutine (pc) and    *)
(* the worker goroutines it spawns (a bag of local states, since workers   *)
(* are interchangeable).                                                   *)
(*                                                                         *)
(* sem.Acquire(ctx, 1) comes from golang.org/x/sync/semaphore.  Its        *)
(* contract: it blocks until a slot is free or ctx is done; on failure it  *)
(* returns ctx.Err() and leaves the semaphore unchanged; "if ctx is        *)
(* already done, Acquire may still succeed without blocking".  So with a   *)
(* free slot and a done context either outcome is possible (older          *)
(* releases always take the free slot, newer ones always fail).            *)
(***************************************************************************)
EXTENDS Integers, Sequences, FiniteSets, Bags, TLC

\* ---------------------------------------------------------------- bounds
MaxWorker == 2      \* numWorker ranges over 1..MaxWorker
MaxIter == 3        \* maxIter ranges over -1..MaxIter
MaxLinger == 1      \* goroutines that released their slot but have not yet called wg.Done
MaxIssue == 3       \* iterations issued by an unbounded run that appends Records
MaxRecords == 3     \* records delivered to one Collect call
MaxFields == 2      \* length of the fields argument of Override
MaxRequests == 3    \* Runner.Requests ranges over -1..MaxRequests
ChanCap == 1        \* records r.Records holds between a send and its receive
MaxCallIter == 3    \* maxIter of each of two Do calls on one Dispatcher ranges over 0..MaxCallIter

VARIABLES
    variant,    \* "dispatcher" (dispatcher.Do, called by Requester.Run) or "semimpl" (semimpl.Do, called by request.Do)
    numWorker,  \* dispatcher.numWorker / numWorkers
    maxIter,    \* maxIter argument
    callback,   \* "nil", "noop" (a callback touching no Requester state) or "record" (the per-attempt closure)
    pc,         \* position of the goroutine that runs Do and then builds the report
    i,          \* loop variable of Do
    wg,         \* sync.WaitGroup counter
    sem,        \* semaphore.Weighted: slots currently held
    ctx,        \* ctx.Err(): "none", "Canceled" or "DeadlineExceeded"
    ret,        \* value returned by Do: "none" (not returned), "nil", "ErrInvalidValue", or a context error
    workers,    \* bag of the local states of the live worker goroutines
    records,    \* Requester.records: sequence of Record.Error kinds ("ok" = nil Error)
    numErr,     \* Requester.numErr
    mu,         \* Requester.mu is held
    calls,      \* number of callback invocations started (saturates at CallCap)
    report,     \* what the caller built once Do returned: [built, length, numErr]
    globalTimeout,  \* RunnerOptions.GlobalTimeout: 0, or 1 for any positive duration
    hasBody,    \* the request template has a body (req.Body != nil)
    interrupted,    \* the caller's context was cancelled (OS interrupt received)
    progress,   \* the state-printing goroutine of Run: "none", "running" or "exited"
    rdone,      \* Requester.done
    runErr,     \* error returned by Requester.Run: "none" (not returned), "nil", or the error
    input,      \* Collect: the records the producer sends on r.Records before closing it
    pending,    \* Collect: the records the producer has not sent yet
    ch,         \* Collect: the records sent on r.Records and not yet received
    chanClosed, \* Collect: r.Records is closed
    received,   \* Collect: the values rec has taken in the range loop, in order
    rep,        \* Collect: the Report being built
    cpc,        \* Collect: "idle" (not called), "range" or "done"
    entry,      \* config: the receiver (or the validated config) as it was at the call
    recv,       \* config: the receiver as its owner sees it now, header map contents included
    cfg,        \* config: the callee's copy of the receiver, which Override returns
    other,      \* config: the argument c of Override
    fieldsArg,  \* config: the fields argument of Override
    fi,         \* config: position of Override's loop in fieldsArg
    verrs,      \* config: inputErrors of Validate, as the set of flags complained about
    cfgpc,      \* config: "idle", "override", "returned", "validate" or "validated"
    out,        \* Export: the strategies of Metadata.Config.Output.Out
    epc,        \* Export: "idle", "stdout", "json", "benchttp", "check" or "returned"
    ok,         \* Export: the local ok
    errs,       \* Export: the local errs, in the order they were appended
    results,    \* Export: what each call of an export function returned, in call order
    eret,       \* Export: the value returned: "none" (not returned), "nil", "ErrInvalidStrategy" or "ExportError"
    callMaxIter,    \* shared dispatcher: the maxIter argument of each Do call
    callPc,     \* shared dispatcher: where each Do call stands
    callI,      \* shared dispatcher: the loop counter i of each Do call
    callWg,     \* shared dispatcher: the WaitGroup counter of each Do call
    callCtx,    \* shared dispatcher: whether the context of each Do call is done
    callRet,    \* shared dispatcher: the value each Do call returned
    callWorkers \* shared dispatcher: the goroutines each Do call spawned, counted by phase

\* State of Requester.Run around the dispatch.
runVars == <<globalTimeout, hasBody, interrupted, progress, rdone, runErr>>

\* State of request.Requester.Collect.
collectVars == <<input, pending, ch, chanClosed, received, rep, cpc>>

\* State of a call of Global.Override or Global.Validate.
configVars == <<entry, recv, cfg, other, fieldsArg, fi, verrs, cfgpc>>

\* State of a call of Output.Export.
exportVars == <<out, epc, ok, errs, results, eret>>

\* State of two Do calls running on one Dispatcher value.
sharedVars == <<callMaxIter, callPc, callI, callWg, callCtx, callRet, callWorkers>>

vars == <<variant, numWorker, maxIter, callback, pc, i, wg, sem, ctx, ret,
          workers, records, numErr, mu, calls, report, runVars, collectVars,
          configVars, exportVars, sharedVars>>

\* ------------------------------------------------------------ value sets
Variants == {"dispatcher", "semimpl"}
Callbacks == {"nil", "noop", "record"}
CtxErrs == {"Canceled", "DeadlineExceeded"}
ErrKinds == {"clone", "send", "read"}

Min(a, b) == IF a < b THEN a ELSE b

Max(a, b) == IF a < b THEN b ELSE a

\* calls counts exactly below CallCap; every run that appends Records stays below it.
CallCap == Max(MaxIter, MaxIssue) + 1

\* A run is unbounded when the loop condition's second operand holds.
Unbounded == maxIter = 0

\* Report{}: no report was built.
NoReport == [built |-> FALSE, length |-> 0, numErr |-> 0]

\* ----------------------------------------------------------- worker bag
\* req and body are the request value and the body stream a worker hands to
\* the HTTP client: "template" is the value every closure execution shares
\* (the req captured by the closure, its Body), "clone" and "fresh" are
\* values made by this execution alone, "none" is no value.
NewWorker == [pc |-> "spawned", rec |-> "-", ldRecs |-> <<>>, ldErr |-> 0,
              req |-> "none", body |-> "none"]

Live == BagToSet(workers)

Replace(w, v) == (workers (-) SetToBag({w})) (+) SetToBag({v})

Remove(w) == workers (-) SetToBag({w})

NumLive == BagCardinality(workers)

\* Workers whose callback body has started and not yet returned.
BodyPcs == {"clone", "attempt", "lock", "appLoad", "appStore", "incLoad", "incStore",
            "unlock", "sleep", "safeAppend", "running"}

\* Number of live workers whose position is in the set pcs.
NumAt(pcs) ==
    BagCardinality([w \in {v \in DOMAIN workers : v.pc \in pcs} |-> workers[w]])

InFlight == NumAt(BodyPcs)

\* Workers inside appendRecord's critical section (between Lock and Unlock).
CritPcs == {"appLoad", "appStore", "incLoad", "incStore", "unlock"}

InCritical == {w \in Live : w.pc \in CritPcs}

\* ------------------------------------------------------------------ Init
\* Requester.Run is the caller of Do: the dispatcher receives the per-attempt
\* closure.  Otherwise Do is called directly (dispatcher) or by request.Do
\* (semimpl), with a context the caller made.
RunIsCaller == variant = "dispatcher" /\ callback = "record"

\* Run has not yet called the dispatcher.
PreDispatch == pc \in {"request", "ping", "setup"}

\* The Report a Collect call starts from: rep := Report{}
EmptyRep == [recs |-> <<>>, length |-> 0, success |-> 0, fail |-> 0]

\* Collect is not called.
CollectIdle ==
    /\ input = <<>>
    /\ pending = <<>>
    /\ ch = <<>>
    /\ chanClosed = FALSE
    /\ received = <<>>
    /\ rep = EmptyRep
    /\ cpc = "idle"

\* Export is not called.
ExportIdle ==
    /\ out = {}
    /\ epc = "idle"
    /\ ok = FALSE
    /\ errs = <<>>
    /\ results = <<>>
    /\ eret = "none"

\* The two Do calls that may share a Dispatcher.
DoCalls == {1, 2}

\* What a spawned goroutine is doing: running callback(), about to run
\* d.sem.Release(1) in its deferred function, or about to run wg.Done().
Phases == {"callback", "release", "wgdone"}

NoWorkers == [ph \in Phases |-> 0]

\* No second Do call shares the dispatcher.
SharedIdle ==
    /\ callMaxIter = [c \in DoCalls |-> 0]
    /\ callPc = [c \in DoCalls |-> "idle"]
    /\ callI = [c \in DoCalls |-> 0]
    /\ callWg = [c \in DoCalls |-> 0]
    /\ callCtx = [c \in DoCalls |-> FALSE]
    /\ callRet = [c \in DoCalls |-> "none"]
    /\ callWorkers = [c \in DoCalls |-> NoWorkers]

\* ---------------------------------------------------------- config values
\* A http.Header: nil, or a map from keys to values.
NilHeader == [isNil |-> TRUE, map |-> [k \in {} |-> "-"]]

HeaderKeys == {"key0", "key1"}

\* The non-nil and nil headers whose values are all v.
Headers(v) ==
    {NilHeader} \cup {[isNil |-> FALSE, map |-> [k \in ks |-> v]] : ks \in SUBSET HeaderKeys}

\* Global{}: the zero value.
ZeroConfig ==
    [method |-> "", url |-> "nil", header |-> NilHeader, body |-> "",
     requests |-> 0, concurrency |-> 0, interval |-> 0, requestTimeout |-> 0,
     globalTimeout |-> 0, out |-> <<>>, silent |-> FALSE, template |-> ""]

\* No Override or Validate call is in progress.
ConfigIdle ==
    /\ entry = ZeroConfig
    /\ recv = ZeroConfig
    /\ cfg = ZeroConfig
    /\ other = ZeroConfig
    /\ fieldsArg = <<>>
    /\ fi = 1
    /\ verrs = {}
    /\ cfgpc = "idle"

Init ==
    /\ variant \in Variants
    /\ numWorker \in 1..MaxWorker
    /\ maxIter \in -1..MaxIter
    /\ callback \in Callbacks
    /\ (variant = "semimpl" => callback # "nil")
    /\ pc = IF RunIsCaller THEN "request"
            ELSE IF variant = "dispatcher" THEN "validate" ELSE "loop"
    /\ i = 0
    /\ wg = 0
    /\ sem = 0
    /\ ctx = "none"
    /\ ret = "none"
    /\ workers = EmptyBag
    /\ records = <<>>
    /\ numErr = 0
    /\ mu = FALSE
    /\ calls = 0
    /\ report = NoReport
    /\ globalTimeout \in (IF RunIsCaller THEN {0, 1} ELSE {1})
    /\ hasBody \in (IF RunIsCaller THEN BOOLEAN ELSE {FALSE})
    /\ interrupted = FALSE
    /\ progress = "none"
    /\ rdone = FALSE
    /\ runErr = "none"
    /\ CollectIdle
    /\ ExportIdle
    /\ SharedIdle
    /\ ConfigIdle

\* ------------------------------------------------------- Requester.Run
\* req, err := r.config.HTTPRequest(): building the request can fail.
HTTPRequest ==
    /\ pc = "request"
    /\ \/ /\ pc' = "ping"
          /\ UNCHANGED runErr
       \/ /\ pc' = "done"
          /\ runErr' = "ErrRequest"
    /\ UNCHANGED <<variant, numWorker, maxIter, callback, i, wg, sem, ctx, ret,
                   workers, records, numErr, mu, calls, report,
                   globalTimeout, hasBody, interrupted, progress, rdone,
                   collectVars, configVars, exportVars, sharedVars>>

\* A Run that goes on to the dispatch after a failed pre-flight request.
PingFailurePcContinues == "setup"

\* Where Run goes when the pre-flight request failed: it returns.
PingFailurePc == "done"

\* r.ping(req): the pre-flight request; on failure Run returns
\* (Report{}, ErrConnection).
Ping ==
    /\ pc = "ping"
    /\ \/ /\ pc' = "setup"
          /\ UNCHANGED runErr
       \/ /\ pc' = PingFailurePc
          /\ runErr' = "ErrConnection"
    /\ UNCHANGED <<variant, numWorker, maxIter, callback, i, wg, sem, ctx, ret,
                   workers, records, numErr, mu, calls, report,
                   globalTimeout, hasBody, interrupted, progress, rdone,
                   collectVars, configVars, exportVars, sharedVars>>

\* context.WithTimeout(context.Background(), timeout): a deadline that is
\* not in the future gives a context that is done from the start.
NewContext == IF globalTimeout = 0 THEN "DeadlineExceeded" ELSE "none"

\* r.start = time.Now(); the context is made; the state-printing goroutine
\* is started; dispatcher.New(numWorker).Do(...) is called.
Setup ==
    /\ pc = "setup"
    /\ ctx' = NewContext
    /\ progress' = "running"
    /\ pc' = "validate"
    /\ UNCHANGED <<variant, numWorker, maxIter, callback, i, wg, sem, ret,
                   workers, records, numErr, mu, calls, report,
                   globalTimeout, hasBody, interrupted, rdone, runErr,
                   collectVars, configVars, exportVars, sharedVars>>

\* The caller's context is cancelled: cmdRun.listenOSInterrupt calls cancel.
\* Run derives its context from context.Background(), so nothing in Run
\* or Do observes it.
Interrupt ==
    /\ RunIsCaller
    /\ ~interrupted
    /\ pc # "done"
    /\ interrupted' = TRUE
    /\ UNCHANGED <<variant, numWorker, maxIter, callback, pc, i, wg, sem, ctx,
                   ret, workers, records, numErr, mu, calls, report,
                   globalTimeout, hasBody, progress, rdone, runErr,
                   collectVars, configVars, exportVars, sharedVars>>

\* The state-printing goroutine: if r.done it stops, otherwise it prints
\* r.state() and waits for the next tick.  r.done is read without
\* synchronisation, so a read may also miss a write already made.
ProgressTick ==
    /\ progress = "running"
    /\ \/ /\ rdone
          /\ progress' = "exited"
       \/ progress' = progress
    /\ UNCHANGED <<variant, numWorker, maxIter, callback, pc, i, wg, sem, ctx,
                   ret, workers, records, numErr, mu, calls, report,
                   globalTimeout, hasBody, interrupted, rdone, runErr,
                   collectVars, configVars, exportVars, sharedVars>>

\* --------------------------------------------------------------- context
\* How the context of the dispatch can become done: under Requester.Run
\* only its deadline can expire (cancel is deferred to Run's return); a
\* context made by another caller can also be cancelled.
PossibleCtxErrs == IF RunIsCaller THEN {"DeadlineExceeded"} ELSE CtxErrs

\* The context becomes done: cancel() is called or the deadline expires.
CtxDone ==
    /\ ctx = "none"
    /\ ~PreDispatch
    /\ pc # "done"
    /\ \E e \in PossibleCtxErrs : ctx' = e
    /\ UNCHANGED <<variant, numWorker, maxIter, callback, pc, i, wg, sem, ret,
                   workers, records, numErr, mu, calls, report,
                   runVars, collectVars, configVars, exportVars, sharedVars>>

\* ------------------------------------------------------- dispatcher.Do
\* validate without its numWorker check.
validateNoWorkerCheck ==
    IF maxIter < 1 THEN "ErrInvalidValue"
    ELSE IF callback = "nil" THEN "ErrInvalidValue"
    ELSE "nil"

\* dispatcher.validate for a dispatcher of w workers called with m and cb.
validateArgs(w, m, cb) ==
    IF m < 1 THEN "ErrInvalidValue"
    ELSE IF m < w THEN "ErrInvalidValue"
    ELSE IF cb = "nil" THEN "ErrInvalidValue"
    ELSE "nil"

\* dispatcher.validate
validate == validateArgs(numWorker, maxIter, callback)

Validate ==
    /\ pc = "validate"
    /\ IF validate # "nil"
         THEN /\ ret' = validate
              /\ pc' = "returned"
         ELSE /\ ret' = ret
              /\ pc' = "loop"
    /\ UNCHANGED <<variant, numWorker, maxIter, callback, i, wg, sem, ctx,
                   workers, records, numErr, mu, calls, report,
                   runVars, collectVars, configVars, exportVars, sharedVars>>

\* The loop condition off by one.
LoopCondInclusive == i <= maxIter \/ maxIter = 0

\* for i := 0; i < maxIter || maxIter == 0; i++
LoopCond == i < maxIter \/ maxIter = 0

LoopCheck ==
    /\ pc = "loop"
    /\ (Unbounded /\ callback = "record" => i < MaxIssue)
    /\ pc' = IF LoopCond THEN "add" ELSE "wait"
    /\ UNCHANGED <<variant, numWorker, maxIter, callback, i, wg, sem, ctx, ret,
                   workers, records, numErr, mu, calls, report,
                   runVars, collectVars, configVars, exportVars, sharedVars>>

\* wg.Add(1)
WgAdd ==
    /\ pc = "add"
    /\ wg' = wg + 1
    /\ pc' = "acquire"
    /\ UNCHANGED <<variant, numWorker, maxIter, callback, i, sem, ctx, ret,
                   workers, records, numErr, mu, calls, report,
                   runVars, collectVars, configVars, exportVars, sharedVars>>

\* An admission gate that keeps one slot unused.
CanAcquireKeepsOneFree == sem < numWorker - 1

\* An admission gate one slot too wide.
CanAcquireOneMore == sem <= numWorker

\* sem.Acquire(ctx, 1) can return nil: a slot is free.
CanAcquire == sem < numWorker

\* sem.Acquire(ctx, 1) can return ctx.Err(): the context is done.
CanFailAcquire == ctx # "none"

AcquireOK ==
    /\ pc = "acquire"
    /\ CanAcquire
    /\ sem' = sem + 1
    /\ pc' = "spawn"
    /\ UNCHANGED <<variant, numWorker, maxIter, callback, i, wg, ctx, ret,
                   workers, records, numErr, mu, calls, report,
                   runVars, collectVars, configVars, exportVars, sharedVars>>

\* A loop that spawns the goroutine even though Acquire failed.
AfterAcquireErrSpawns == "spawn"

\* break: the loop is left for wg.Wait().
AfterAcquireErr == "wait"

\* A failed Acquire that keeps a slot all the same.
SlotsAfterFailedAcquireLeak == sem + 1

\* A failed Acquire leaves the semaphore as it was.
SlotsAfterFailedAcquire == sem

\* Acquire failed: wg.Done(); break
AcquireErr ==
    /\ pc = "acquire"
    /\ CanFailAcquire
    /\ sem' = SlotsAfterFailedAcquire
    /\ wg' = wg - 1
    /\ pc' = AfterAcquireErr
    /\ UNCHANGED <<variant, numWorker, maxIter, callback, i, ctx, ret,
                   workers, records, numErr, mu, calls, report,
                   runVars, collectVars, configVars, exportVars, sharedVars>>

\* go func() { ... }(); i++
Spawn ==
    /\ pc = "spawn"
    /\ NumLive < numWorker + MaxLinger
    /\ workers' = workers (+) SetToBag({NewWorker})
    /\ i' = IF Unbounded THEN Min(i + 1, MaxIssue) ELSE i + 1
    /\ pc' = "loop"
    /\ UNCHANGED <<variant, numWorker, maxIter, callback, wg, sem, ctx, ret,
                   records, numErr, mu, calls, report,
                   runVars, collectVars, configVars, exportVars, sharedVars>>

\* A Do that does not wait for its workers.
WaitDoneAtOnce == TRUE

\* wg.Wait() returns once the counter is zero.
WaitDone == wg = 0

\* A Do that reports the context error that ended the loop.
DoReturnCtxErr == IF ctx # "none" /\ LoopCond THEN ctx ELSE "nil"

\* return nil
DoReturn == "nil"

\* wg.Wait(); return nil
Wait ==
    /\ pc = "wait"
    /\ WaitDone
    /\ ret' = DoReturn
    /\ pc' = "returned"
    /\ UNCHANGED <<variant, numWorker, maxIter, callback, i, wg, sem, ctx,
                   workers, records, numErr, mu, calls, report,
                   runVars, collectVars, configVars, exportVars, sharedVars>>

\* -------------------------------------------------------------- workers
\* The goroutine starts running: callback() is invoked.
FirstPc ==
    IF callback # "record" THEN "running"
    ELSE IF variant = "dispatcher" THEN "clone" ELSE "attempt"

Start ==
    /\ \E w \in Live :
        /\ w.pc = "spawned"
        /\ workers' = Replace(w, [w EXCEPT !.pc = FirstPc])
    /\ calls' = Min(calls + 1, CallCap)
    /\ UNCHANGED <<variant, numWorker, maxIter, callback, pc, i, wg, sem, ctx,
                   ret, records, numErr, mu, report,
                   runVars, collectVars, configVars, exportVars, sharedVars>>

\* A callback that touches no Requester state returns.
NoopReturn ==
    /\ \E w \in Live :
        /\ w.pc = "running"
        /\ workers' = Replace(w, [w EXCEPT !.pc = "returned"])
    /\ UNCHANGED <<variant, numWorker, maxIter, callback, pc, i, wg, sem, ctx,
                   ret, records, numErr, mu, calls, report,
                   runVars, collectVars, configVars, exportVars, sharedVars>>

\* Outcomes of sending one request: Requester.record sends and reads the
\* body; request.Do's closure only sends (doRequest).
Outcomes == IF variant = "dispatcher" THEN {"send", "read", "ok"} ELSE {"send", "ok"}

\* A closure whose clone-failure path returns without appending.
AppendPcDropsClone(o) ==
    IF o = "clone" THEN "returned"
    ELSE IF variant = "dispatcher" THEN "lock" ELSE "safeAppend"

\* Every outcome o of the attempt is handed to r.appendRecord (Requester)
\* or to records.Append (request.Do).
AppendPc(o) == IF variant = "dispatcher" THEN "lock" ELSE "safeAppend"

\* A clone that keeps the body req.Clone copied over from the template.
CloneBodyShared == IF hasBody THEN "template" ELSE "none"

\* cloneRequest: if req.Body != nil the clone's Body is replaced by the
\* stream req.GetBody() returns, a new reader on every call.
CloneBody == IF hasBody THEN "fresh" ELSE "none"

\* reqClone, err := cloneRequest(req): req.Clone makes a new request value;
\* only GetBody can fail, and it is called only when the template has a body.
Clone ==
    /\ \E w \in Live :
        /\ w.pc = "clone"
        /\ \/ workers' = Replace(w, [w EXCEPT !.pc = "attempt", !.req = "clone",
                                                !.body = CloneBody])
           \/ /\ hasBody
              /\ workers' = Replace(w, [w EXCEPT !.pc = AppendPc("clone"),
                                                   !.rec = "clone"])
    /\ UNCHANGED <<variant, numWorker, maxIter, callback, pc, i, wg, sem, ctx,
                   ret, records, numErr, mu, calls, report,
                   runVars, collectVars, configVars, exportVars, sharedVars>>

\* r.client.Do(reqClone) and io.ReadAll(resp.Body); the request value is
\* dropped once the exchange is over.
Attempt ==
    /\ \E w \in Live :
        /\ w.pc = "attempt"
        /\ \E o \in Outcomes :
             workers' = Replace(w, [w EXCEPT !.pc = AppendPc(o), !.rec = o,
                                             !.req = "none", !.body = "none"])
    /\ UNCHANGED <<variant, numWorker, maxIter, callback, pc, i, wg, sem, ctx,
                   ret, records, numErr, mu, calls, report,
                   runVars, collectVars, configVars, exportVars, sharedVars>>

\* A lock that excludes nobody.
CanLockAlways == TRUE

\* r.mu.Lock() can proceed.
CanLock == ~mu

Lock ==
    /\ \E w \in Live :
        /\ w.pc = "lock"
        /\ CanLock
        /\ workers' = Replace(w, [w EXCEPT !.pc = "appLoad"])
    /\ mu' = TRUE
    /\ UNCHANGED <<variant, numWorker, maxIter, callback, pc, i, wg, sem, ctx,
                   ret, records, numErr, calls, report,
                   runVars, collectVars, configVars, exportVars, sharedVars>>

\* r.records = append(r.records, rec): read of r.records
AppendLoad ==
    /\ \E w \in Live :
        /\ w.pc = "appLoad"
        /\ workers' = Replace(w, [w EXCEPT !.pc = "appStore", !.ldRecs = records])
    /\ UNCHANGED <<variant, numWorker, maxIter, callback, pc, i, wg, sem, ctx,
                   ret, records, numErr, mu, calls, report,
                   runVars, collectVars, configVars, exportVars, sharedVars>>

\* A count that only sees send failures.
CountsAsErrorSendOnly(rec) == rec = "send"

\* if rec.Error != nil
CountsAsError(rec) == rec # "ok"

\* An append that puts the new Record first.
AppendedInFront(recs, rec) == <<rec>> \o recs

\* append(r.records, rec)
Appended(recs, rec) == Append(recs, rec)

\* r.records = append(r.records, rec): write of r.records
AppendStore ==
    /\ \E w \in Live :
        /\ w.pc = "appStore"
        /\ records' = Appended(w.ldRecs, w.rec)
        /\ workers' = Replace(w, [w EXCEPT
               !.pc = IF CountsAsError(w.rec) THEN "incLoad" ELSE "unlock",
               !.ldRecs = <<>>])
    /\ UNCHANGED <<variant, numWorker, maxIter, callback, pc, i, wg, sem, ctx,
                   ret, numErr, mu, calls, report,
                   runVars, collectVars, configVars, exportVars, sharedVars>>

\* r.numErr++: read
IncLoad ==
    /\ \E w \in Live :
        /\ w.pc = "incLoad"
        /\ workers' = Replace(w, [w EXCEPT !.pc = "incStore", !.ldErr = numErr])
    /\ UNCHANGED <<variant, numWorker, maxIter, callback, pc, i, wg, sem, ctx,
                   ret, records, numErr, mu, calls, report,
                   runVars, collectVars, configVars, exportVars, sharedVars>>

\* r.numErr++: write
IncStore ==
    /\ \E w \in Live :
        /\ w.pc = "incStore"
        /\ numErr' = w.ldErr + 1
        /\ workers' = Replace(w, [w EXCEPT !.pc = "unlock", !.ldErr = 0])
    /\ UNCHANGED <<variant, numWorker, maxIter, callback, pc, i, wg, sem, ctx,
                   ret, records, mu, calls, report,
                   runVars, collectVars, configVars, exportVars, sharedVars>>

\* What the closure does after appendRecord returned: only the success path
\* goes on to fmt.Print(r.state()) and time.Sleep(interval).
AfterAppendPc(rec) == IF rec = "ok" THEN "sleep" ELSE "returned"

\* defer r.mu.Unlock()
Unlock ==
    /\ \E w \in Live :
        /\ w.pc = "unlock"
        /\ workers' = Replace(w, [w EXCEPT !.pc = AfterAppendPc(w.rec)])
    /\ mu' = FALSE
    /\ UNCHANGED <<variant, numWorker, maxIter, callback, pc, i, wg, sem, ctx,
                   ret, records, numErr, calls, report,
                   runVars, collectVars, configVars, exportVars, sharedVars>>

\* time.Sleep(interval) ends and the closure returns.
Sleep ==
    /\ \E w \in Live :
        /\ w.pc = "sleep"
        /\ workers' = Replace(w, [w EXCEPT !.pc = "returned"])
    /\ UNCHANGED <<variant, numWorker, maxIter, callback, pc, i, wg, sem, ctx,
                   ret, records, numErr, mu, calls, report,
                   runVars, collectVars, configVars, exportVars, sharedVars>>

\* records.Append(rec) of record.SafeSlice: a guarded, atomic append.
SafeAppend ==
    /\ \E w \in Live :
        /\ w.pc = "safeAppend"
        /\ records' = Append(records, w.rec)
        /\ workers' = Replace(w, [w EXCEPT !.pc = "returned"])
    /\ UNCHANGED <<variant, numWorker, maxIter, callback, pc, i, wg, sem, ctx,
                   ret, numErr, mu, calls, report,
                   runVars, collectVars, configVars, exportVars, sharedVars>>

\* A closure whose slot is given back while it sleeps.
ReleasePcWhileSleeping == "sleep"

\* A goroutine that gives its slot back before it calls the callback.
ReleasePcEarly == "spawned"

\* The deferred function runs when callback() has returned.
ReleasePc == "returned"

\* deferred: d.sem.Release(1)
Release ==
    /\ \E w \in Live :
        /\ w.pc = ReleasePc
        /\ workers' = Replace(w, [w EXCEPT !.pc = "released"])
    /\ sem' = sem - 1
    /\ UNCHANGED <<variant, numWorker, maxIter, callback, pc, i, wg, ctx, ret,
                   records, numErr, mu, calls, report,
                   runVars, collectVars, configVars, exportVars, sharedVars>>

\* deferred: wg.Done(); the goroutine ends.
WgDone ==
    /\ \E w \in Live :
        /\ w.pc = "released"
        /\ workers' = Remove(w)
    /\ wg' = wg - 1
    /\ UNCHANGED <<variant, numWorker, maxIter, callback, pc, i, sem, ctx, ret,
                   records, numErr, mu, calls, report,
                   runVars, collectVars, configVars, exportVars, sharedVars>>

\* --------------------------------------------------------------- caller
\* A Run that hands the context's error to its caller when the context
\* ended the loop.
RunErrFromCtx ==
    IF ret = "ErrInvalidValue" THEN ret
    ELSE IF ctx # "none" /\ LoopCond THEN ctx ELSE "nil"

\* switch r.runErr { case nil, context.Canceled, context.DeadlineExceeded:
\* default: return Report{}, r.runErr } ... return makeReport(...), nil
RunErr == IF ret \in {"nil"} \cup CtxErrs THEN "nil" ELSE ret

\* A caller that reads the records while Do is still waiting for workers.
ReportReadyWhileWaiting == pc \in {"wait", "returned"}

\* The caller goes on to the report once the dispatch call has returned.
ReportReady == pc = "returned"

\* Do has returned: Requester.Run returns the error, or sets r.done and
\* builds the report from r.records and r.numErr; request.Do returns
\* records.Slice().
MakeReport ==
    /\ ReportReady
    /\ report' = IF ret = "ErrInvalidValue" THEN NoReport
                 ELSE [built |-> TRUE, length |-> Len(records), numErr |-> numErr]
    /\ runErr' = IF RunIsCaller THEN RunErr ELSE runErr
    /\ rdone' = (RunIsCaller /\ RunErr = "nil")
    /\ pc' = "done"
    /\ UNCHANGED <<variant, numWorker, maxIter, callback, i, wg, sem, ctx, ret,
                   workers, records, numErr, mu, calls,
                   globalTimeout, hasBody, interrupted, progress,
                   collectVars, configVars, exportVars, sharedVars>>

Next ==
    \/ HTTPRequest
    \/ Ping
    \/ Setup
    \/ ProgressTick
    \/ CtxDone
    \/ Validate
    \/ LoopCheck
    \/ WgAdd
    \/ AcquireOK
    \/ AcquireErr
    \/ Spawn
    \/ Wait
    \/ Start
    \/ NoopReturn
    \/ Clone
    \/ Attempt
    \/ Lock
    \/ AppendLoad
    \/ AppendStore
    \/ IncLoad
    \/ IncStore
    \/ Unlock
    \/ Sleep
    \/ SafeAppend
    \/ Release
    \/ WgDone
    \/ MakeReport

Spec == Init /\ [][Next]_vars

\* ------------------------------------------------ interrupted runs
\* The same runs, in which the user may also interrupt the program while
\* Run is executing (cmdRun.execute passes cancel to listenOSInterrupt).
InterruptNext == Next \/ Interrupt

InterruptSpec == Init /\ [][InterruptNext]_vars

\* ------------------------------------------------------ Report.Collect
\* request.Requester.Collect on its own.  A producer sends the records of
\* input on r.Records in order and then closes the channel; Collect ranges
\* over the channel.  A Record is reduced to its Error and its Code.
CollectRecords ==
    {[error |-> "nil", code |-> c] : c \in {200, 404}}
        \cup {[error |-> e, code |-> 0] : e \in {"send", "read"}}

Inputs == UNION {[1..n -> CollectRecords] : n \in 0..MaxRecords}

CollectInit ==
    /\ variant = "semimpl"
    /\ numWorker = 1
    /\ maxIter = 1
    /\ callback = "record"
    /\ pc = "done"
    /\ i = 0
    /\ wg = 0
    /\ sem = 0
    /\ ctx = "none"
    /\ ret = "none"
    /\ workers = EmptyBag
    /\ records = <<>>
    /\ numErr = 0
    /\ mu = FALSE
    /\ calls = 0
    /\ report = NoReport
    /\ globalTimeout = 1
    /\ hasBody = FALSE
    /\ interrupted = FALSE
    /\ progress = "none"
    /\ rdone = FALSE
    /\ runErr = "none"
    /\ input \in Inputs
    /\ pending = input
    /\ ch = <<>>
    /\ chanClosed = FALSE
    /\ received = <<>>
    /\ rep = EmptyRep
    /\ cpc = "range"
    /\ ExportIdle
    /\ SharedIdle
    /\ ConfigIdle

\* The producer sends its next record on r.Records.
CollectSend ==
    /\ pending # <<>>
    /\ ~chanClosed
    /\ Len(ch) < ChanCap
    /\ ch' = Append(ch, Head(pending))
    /\ pending' = Tail(pending)
    /\ UNCHANGED <<variant, numWorker, maxIter, callback, pc, i, wg, sem, ctx,
                   ret, workers, records, numErr, mu, calls, report,
                   runVars, input, chanClosed, received, rep, cpc,
                   configVars, exportVars, sharedVars>>

\* The producer has sent everything and closes r.Records.
CollectClose ==
    /\ pending = <<>>
    /\ ~chanClosed
    /\ chanClosed' = TRUE
    /\ UNCHANGED <<variant, numWorker, maxIter, callback, pc, i, wg, sem, ctx,
                   ret, workers, records, numErr, mu, calls, report,
                   runVars, input, pending, ch, received, rep, cpc,
                   configVars, exportVars, sharedVars>>

\* A builder that puts each kept record in front of the others.
KeptInFront(recs, rec) == <<rec>> \o recs

\* rep.Records = append(rep.Records, rec)
Kept(recs, rec) == Append(recs, rec)

\* One iteration of for rec := range r.Records
CollectReceive ==
    /\ cpc = "range"
    /\ ch # <<>>
    /\ rep' = IF Head(ch).error # "nil"
                THEN [rep EXCEPT !.fail = @ + 1, !.length = @ + 1]
                ELSE [rep EXCEPT !.recs = Kept(@, Head(ch)), !.length = @ + 1]
    /\ received' = Append(received, Head(ch))
    /\ ch' = Tail(ch)
    /\ UNCHANGED <<variant, numWorker, maxIter, callback, pc, i, wg, sem, ctx,
                   ret, workers, records, numErr, mu, calls, report,
                   runVars, input, pending, chanClosed, cpc,
                   configVars, exportVars, sharedVars>>

\* A loop that ends as soon as nothing is waiting in the channel.
RangeEndsWhenEmpty == ch = <<>>

\* for ... range ends when the channel is closed and drained.
RangeEnds == chanClosed /\ ch = <<>>

\* The loop has ended: rep.Length = len(rep.Records); return rep
CollectReturn ==
    /\ cpc = "range"
    /\ RangeEnds
    /\ rep' = [rep EXCEPT !.length = Len(rep.recs)]
    /\ cpc' = "done"
    /\ UNCHANGED <<variant, numWorker, maxIter, callback, pc, i, wg, sem, ctx,
                   ret, workers, records, numErr, mu, calls, report,
                   runVars, input, pending, ch, chanClosed, received,
                   configVars, exportVars, sharedVars>>

CollectNext ==
    \/ CollectSend
    \/ CollectClose
    \/ CollectReceive
    \/ CollectReturn

CollectSpec == CollectInit /\ [][CollectNext]_vars

\* ------------------------------------------------------ Global.Override
\* No run is in progress: the state of the runner and of Collect while a
\* config is overridden or validated.
RunnerIdle ==
    /\ variant = "dispatcher"
    /\ callback = "record"
    /\ pc = "request"
    /\ i = 0
    /\ wg = 0
    /\ sem = 0
    /\ ctx = "none"
    /\ ret = "none"
    /\ workers = EmptyBag
    /\ records = <<>>
    /\ numErr = 0
    /\ mu = FALSE
    /\ calls = 0
    /\ report = NoReport
    /\ globalTimeout = 1
    /\ hasBody = FALSE
    /\ interrupted = FALSE
    /\ progress = "none"
    /\ rdone = FALSE
    /\ runErr = "none"
    /\ CollectIdle

\* The names the switch of Override has a case for.
FieldNames ==
    {"method", "url", "header", "body", "requests", "concurrency", "interval",
     "requestTimeout", "globalTimeout", "out", "silent", "template"}

\* What callers may pass in fields: known names and an unknown one.
FieldChoices == FieldNames \cup {"unknown"}

FieldLists == UNION {[1..n -> FieldChoices] : n \in 0..MaxFields}

\* A receiver and an argument that differ in every field.
BaseConfig(h) ==
    [method |-> "GET", url |-> "http://a.b", header |-> h, body |-> "",
     requests |-> 1, concurrency |-> 1, interval |-> 0, requestTimeout |-> 1,
     globalTimeout |-> 1, out |-> <<"stdout">>, silent |-> FALSE, template |-> ""]

OtherConfig(h) ==
    [method |-> "POST", url |-> "http://c.d", header |-> h, body |-> "raw",
     requests |-> 2, concurrency |-> 2, interval |-> 1, requestTimeout |-> 2,
     globalTimeout |-> 2, out |-> <<"json">>, silent |-> TRUE, template |-> "t"]

OverrideInit ==
    /\ RunnerIdle
    /\ ExportIdle
    /\ SharedIdle
    /\ numWorker = 1
    /\ maxIter = 1
    /\ \E h \in Headers("oldval") :
          /\ entry = BaseConfig(h)
          /\ recv = BaseConfig(h)
          /\ cfg = BaseConfig(h)
    /\ \E h \in Headers("newval") : other = OtherConfig(h)
    /\ fieldsArg \in FieldLists
    /\ fi = 1
    /\ verrs = {}
    /\ cfgpc = "override"

\* An overrideHeader that replaces the header as a whole.
overrideHeaderReplace(old, new) == new

\* Global.overrideHeader: a nil newHeader changes nothing; a nil header is
\* first replaced by an empty map; then every key of newHeader is assigned.
overrideHeader(old, new) ==
    IF new.isNil THEN old
    ELSE [isNil |-> FALSE,
          map |-> [k \in DOMAIN old.map \cup DOMAIN new.map |->
                     IF k \in DOMAIN new.map THEN new.map[k] ELSE old.map[k]]]

\* A switch whose requests case assigns the concurrency.
FieldTargetCrossed(f) == IF f = "requests" THEN "concurrency" ELSE f

\* The field of cfg that the case for name f assigns.
FieldTarget(f) == f

\* The body of the loop of Override for one name.
OverrideOne(c, f) ==
    IF f = "header" THEN [c EXCEPT !.header = overrideHeader(c.header, other.header)]
    ELSE IF f \in FieldNames THEN [c EXCEPT ![FieldTarget(f)] = other[FieldTarget(f)]]
    ELSE c

\* One iteration of for _, field := range fields.  cfg is a copy of the
\* receiver, but a non-nil header map is the receiver's own map, so what
\* overrideHeader assigns into it shows in the receiver too.
OverrideField ==
    /\ cfgpc = "override"
    /\ fi <= Len(fieldsArg)
    /\ cfg' = OverrideOne(cfg, fieldsArg[fi])
    /\ recv' = IF entry.header.isNil THEN recv
               ELSE [recv EXCEPT !.header = OverrideOne(cfg, fieldsArg[fi]).header]
    /\ fi' = fi + 1
    /\ UNCHANGED <<variant, numWorker, maxIter, callback, pc, i, wg, sem, ctx,
                   ret, workers, records, numErr, mu, calls, report,
                   runVars, collectVars, exportVars, sharedVars,
                   entry, other, fieldsArg, verrs, cfgpc>>

\* return cfg
OverrideReturn ==
    /\ cfgpc = "override"
    /\ fi > Len(fieldsArg)
    /\ cfgpc' = "returned"
    /\ UNCHANGED <<variant, numWorker, maxIter, callback, pc, i, wg, sem, ctx,
                   ret, workers, records, numErr, mu, calls, report,
                   runVars, collectVars, exportVars, sharedVars,
                   entry, recv, cfg, other, fieldsArg, fi,
                   verrs>>

OverrideNext == OverrideField \/ OverrideReturn

OverrideSpec == OverrideInit /\ [][OverrideNext]_vars

\* ------------------------------------------------------ Global.Validate
URLs == {"nil", "bad", "http://a.b"}

\* Values of Output.Out: empty, a known strategy, an unknown one.
Outs == {<<>>, <<"json">>, <<"json", "bogus">>}

\* The configs handed to Validate.
ValidateInputs ==
    [method : {"GET"}, url : URLs, header : {NilHeader}, body : {""},
     requests : -1..MaxRequests, concurrency : 0..(MaxWorker + 1),
     interval : {-1, 0}, requestTimeout : {-1, 0}, globalTimeout : {-1, 0, 1},
     out : Outs, silent : {FALSE}, template : {""}]

ValidateInit ==
    /\ RunnerIdle
    /\ ExportIdle
    /\ SharedIdle
    /\ numWorker = 1
    /\ maxIter = 1
    /\ cfg \in ValidateInputs
    /\ entry = cfg
    /\ recv = cfg
    /\ other = ZeroConfig
    /\ fieldsArg = <<>>
    /\ fi = 1
    /\ verrs = {}
    /\ cfgpc = "validate"

\* IsOutput
IsOutput(o) == o \in {"benchttp", "json", "stdout"}

\* if cfg.Runner.Concurrency < 1 || cfg.Runner.Concurrency > cfg.Runner.Requests
ConcurrencyErr(c) == c.concurrency < 1 \/ c.concurrency > c.requests

\* The checks of Validate, each giving the flag its error names.
inputErrors(c) ==
    {f \in {"url", "requests", "concurrency", "interval", "timeout", "globalTimeout", "out"} :
        \/ f = "url" /\ c.url \in {"nil", "bad"}
        \/ f = "requests" /\ c.requests < 1 /\ c.requests # -1
        \/ f = "concurrency" /\ ConcurrencyErr(c)
        \/ f = "interval" /\ c.interval < 0
        \/ f = "timeout" /\ c.requestTimeout < 0
        \/ f = "globalTimeout" /\ c.globalTimeout < 0
        \/ f = "out" /\ (Len(c.out) = 0 \/ \E k \in 1..Len(c.out) : ~IsOutput(c.out[k]))}

\* Global.Validate: returns nil when inputErrors is empty.
Validated ==
    /\ cfgpc = "validate"
    /\ verrs' = inputErrors(cfg)
    /\ cfgpc' = "validated"
    /\ UNCHANGED <<variant, numWorker, maxIter, callback, pc, i, wg, sem, ctx,
                   ret, workers, records, numErr, mu, calls, report,
                   runVars, collectVars, exportVars, sharedVars,
                   entry, recv, cfg, other, fieldsArg, fi>>

ValidateNext == Validated

ValidateSpec == ValidateInit /\ [][ValidateNext]_vars

\* ------------------------------------------------------------ Output.Export
\* Stdout, JSONFile and Benchttp: the strategies Export knows.
Strategies == {"stdout", "json", "benchttp"}

\* What Metadata.Config.Output.Out may list, known to Export or not.
OutChoices == Strategies \cup {"bogus"}

\* s := exportStrategy(o.Metadata.Config.Output.Out): the known strategies
\* among those listed.
exportStrategy(o) == o \cap Strategies

\* s.is(x)
is(s, x) == x \in s

\* The errors of export.JSONFile and of export.HTTP; "nil" is success.
JSONFileErrs == {"ErrJSONMarshal", "ErrFileCreate", "ErrFileWrite"}

HTTPErrs == {"ErrHTTPRequest", "ErrHTTPResponse"}

\* A call of Output.Export, with any selection of strategies.
ExportInit ==
    /\ RunnerIdle
    /\ numWorker = 1
    /\ maxIter = 1
    /\ ConfigIdle
    /\ SharedIdle
    /\ out \in SUBSET OutChoices
    /\ epc = "stdout"
    /\ ok = FALSE
    /\ errs = <<>>
    /\ results = <<>>
    /\ eret = "none"

\* if s.is(Stdout) { export.Stdout(o); ok = true }
ExportStdout ==
    /\ epc = "stdout"
    /\ IF is(exportStrategy(out), "stdout")
          THEN /\ results' = Append(results, [strategy |-> "stdout", err |-> "nil"])
               /\ ok' = TRUE
          ELSE UNCHANGED <<results, ok>>
    /\ epc' = "json"
    /\ UNCHANGED <<variant, numWorker, maxIter, callback, pc, i, wg, sem, ctx,
                   ret, workers, records, numErr, mu, calls, report,
                   runVars, collectVars, configVars, sharedVars, out, errs, eret>>

\* A mutation of AfterJSONFile: Export gives up at the first failure.
AfterJSONFileStops(e) == IF e = "nil" THEN "benchttp" ELSE "check"

\* Whatever export.JSONFile returned, Export goes on to the next strategy.
AfterJSONFile(e) == "benchttp"

\* if s.is(JSONFile) { if err := export.JSONFile(...); err != nil
\* { errs = append(errs, err) }; ok = true }
ExportJSONFile ==
    /\ epc = "json"
    /\ IF is(exportStrategy(out), "json")
          THEN \E e \in JSONFileErrs \cup {"nil"} :
                  /\ results' = Append(results, [strategy |-> "json", err |-> e])
                  /\ errs' = IF e # "nil" THEN Append(errs, e) ELSE errs
                  /\ ok' = TRUE
                  /\ epc' = AfterJSONFile(e)
          ELSE /\ epc' = "benchttp"
               /\ UNCHANGED <<results, errs, ok>>
    /\ UNCHANGED <<variant, numWorker, maxIter, callback, pc, i, wg, sem, ctx,
                   ret, workers, records, numErr, mu, calls, report,
                   runVars, collectVars, configVars, sharedVars, out, eret>>

\* if s.is(Benchttp) { if err := export.HTTP(o); err != nil
\* { errs = append(errs, err) }; ok = true }
ExportHTTP ==
    /\ epc = "benchttp"
    /\ IF is(exportStrategy(out), "benchttp")
          THEN \E e \in HTTPErrs \cup {"nil"} :
                  /\ results' = Append(results, [strategy |-> "benchttp", err |-> e])
                  /\ errs' = IF e # "nil" THEN Append(errs, e) ELSE errs
                  /\ ok' = TRUE
          ELSE UNCHANGED <<results, errs, ok>>
    /\ epc' = "check"
    /\ UNCHANGED <<variant, numWorker, maxIter, callback, pc, i, wg, sem, ctx,
                   ret, workers, records, numErr, mu, calls, report,
                   runVars, collectVars, configVars, sharedVars, out, eret>>

\* if !ok { return ErrInvalidStrategy }
\* if len(errs) != 0 { return &ExportError{Errors: errs} }
\* return nil
ExportReturn ==
    /\ epc = "check"
    /\ eret' = IF ~ok THEN "ErrInvalidStrategy"
               ELSE IF Len(errs) # 0 THEN "ExportError" ELSE "nil"
    /\ epc' = "returned"
    /\ UNCHANGED <<variant, numWorker, maxIter, callback, pc, i, wg, sem, ctx,
                   ret, workers, records, numErr, mu, calls, report,
                   runVars, collectVars, configVars, sharedVars, out, ok, errs,
                   results>>

ExportNext == ExportStdout \/ ExportJSONFile \/ ExportHTTP \/ ExportReturn

ExportSpec == ExportInit /\ [][ExportNext]_vars

\* ------------------------------------- two Do calls on one Dispatcher value
\* Both calls run Do on copies of one dispatcher (value receiver), so they
\* have numWorker and the pointer sem in common; wg, i and ctx are each
\* call's own. The callbacks touch no state of the dispatcher.
SharedInit ==
    /\ RunnerIdle
    /\ numWorker \in 1..MaxWorker
    /\ maxIter = 1
    /\ ConfigIdle
    /\ ExportIdle
    /\ callMaxIter \in [DoCalls -> 0..MaxCallIter]
    /\ callPc = [c \in DoCalls |-> "validate"]
    /\ callI = [c \in DoCalls |-> 0]
    /\ callWg = [c \in DoCalls |-> 0]
    /\ callCtx = [c \in DoCalls |-> FALSE]
    /\ callRet = [c \in DoCalls |-> "none"]
    /\ callWorkers = [c \in DoCalls |-> NoWorkers]

\* The goroutines of call c that are in phase ph.
At(c, ph) == callWorkers[c][ph]

\* Call c's workers with one more (d = 1) or one fewer (d = -1) in phase ph.
Moved(c, ph, d) == [callWorkers EXCEPT ![c][ph] = @ + d]

\* The slots taken through call c: by its goroutines that have not released
\* yet, and by the call itself between Acquire and the go statement.
SlotsOf(c) == At(c, "callback") + At(c, "release") + (IF callPc[c] = "go" THEN 1 ELSE 0)

\* A mutation of GateLoad: every call has a gate of its own.
GateLoadOwn(c) == SlotsOf(c)

\* What d.sem.Acquire of call c weighs against numWorker: d.sem is a pointer,
\* the same semaphore in every copy of the dispatcher.
GateLoad(c) == sem

\* if err := d.validate(maxIter, callback); err != nil { return err }
DoValidate(c) ==
    /\ callPc[c] = "validate"
    /\ IF validateArgs(numWorker, callMaxIter[c], "noop") # "nil"
          THEN /\ callRet' = [callRet EXCEPT ![c] = "ErrInvalidValue"]
               /\ callPc' = [callPc EXCEPT ![c] = "returned"]
          ELSE /\ callPc' = [callPc EXCEPT ![c] = "loop"]
               /\ UNCHANGED callRet
    /\ UNCHANGED <<variant, numWorker, maxIter, callback, pc, i, wg, sem, ctx, ret,
                   workers, records, numErr, mu, calls, report, runVars,
                   collectVars, configVars, exportVars, callMaxIter,
                   callI, callWg, callCtx, callWorkers>>

\* for i := 0; i < maxIter || maxIter == 0; i++
DoLoop(c) ==
    /\ callPc[c] = "loop"
    /\ callPc' = [callPc EXCEPT ![c] =
                    IF callI[c] < callMaxIter[c] \/ callMaxIter[c] = 0
                        THEN "add" ELSE "wait"]
    /\ UNCHANGED <<variant, numWorker, maxIter, callback, pc, i, wg, sem, ctx, ret,
                   workers, records, numErr, mu, calls, report, runVars,
                   collectVars, configVars, exportVars, callMaxIter,
                   callI, callWg, callCtx, callRet,
                   callWorkers>>

\* wg.Add(1)
DoAdd(c) ==
    /\ callPc[c] = "add"
    /\ callWg' = [callWg EXCEPT ![c] = @ + 1]
    /\ callPc' = [callPc EXCEPT ![c] = "acquire"]
    /\ UNCHANGED <<variant, numWorker, maxIter, callback, pc, i, wg, sem, ctx, ret,
                   workers, records, numErr, mu, calls, report, runVars,
                   collectVars, configVars, exportVars, callMaxIter,
                   callI, callCtx, callRet, callWorkers>>

\* d.sem.Acquire(ctx, 1) returns nil: a slot of the common semaphore is taken.
DoAcquire(c) ==
    /\ callPc[c] = "acquire"
    /\ GateLoad(c) < numWorker
    /\ sem' = sem + 1
    /\ callPc' = [callPc EXCEPT ![c] = "go"]
    /\ UNCHANGED <<variant, numWorker, maxIter, callback, pc, i, wg, ctx, ret,
                   workers, records, numErr, mu, calls, report, runVars,
                   collectVars, configVars, exportVars, callMaxIter,
                   callI, callWg, callCtx, callRet,
                   callWorkers>>

\* d.sem.Acquire(ctx, 1) returns ctx.Err(): wg.Done(); break
DoAcquireErr(c) ==
    /\ callPc[c] = "acquire"
    /\ callCtx[c]
    /\ callWg' = [callWg EXCEPT ![c] = @ - 1]
    /\ callPc' = [callPc EXCEPT ![c] = "wait"]
    /\ UNCHANGED <<variant, numWorker, maxIter, callback, pc, i, wg, sem, ctx, ret,
                   workers, records, numErr, mu, calls, report, runVars,
                   collectVars, configVars, exportVars, callMaxIter,
                   callI, callCtx, callRet, callWorkers>>

\* go func() { ... callback() }(); i++
DoGo(c) ==
    /\ callPc[c] = "go"
    /\ callWorkers' = Moved(c, "callback", 1)
    /\ callI' = [callI EXCEPT ![c] = @ + 1]
    /\ callPc' = [callPc EXCEPT ![c] = "loop"]
    /\ UNCHANGED <<variant, numWorker, maxIter, callback, pc, i, wg, sem, ctx, ret,
                   workers, records, numErr, mu, calls, report, runVars,
                   collectVars, configVars, exportVars, callMaxIter,
                   callWg, callCtx, callRet>>

\* callback() returns in a goroutine of call c.
DoCallbackReturn(c) ==
    /\ At(c, "callback") > 0
    /\ callWorkers' = [callWorkers EXCEPT ![c]["callback"] = @ - 1,
                                          ![c]["release"] = @ + 1]
    /\ UNCHANGED <<variant, numWorker, maxIter, callback, pc, i, wg, sem, ctx, ret,
                   workers, records, numErr, mu, calls, report, runVars,
                   collectVars, configVars, exportVars, callMaxIter,
                   callPc, callI, callWg, callCtx,
                   callRet>>

\* d.sem.Release(1) in the deferred function
DoRelease(c) ==
    /\ At(c, "release") > 0
    /\ sem' = sem - 1
    /\ callWorkers' = [callWorkers EXCEPT ![c]["release"] = @ - 1,
                                          ![c]["wgdone"] = @ + 1]
    /\ UNCHANGED <<variant, numWorker, maxIter, callback, pc, i, wg, ctx, ret,
                   workers, records, numErr, mu, calls, report, runVars,
                   collectVars, configVars, exportVars, callMaxIter,
                   callPc, callI, callWg, callCtx,
                   callRet>>

\* wg.Done() in the deferred function; the goroutine ends.
DoWgDone(c) ==
    /\ At(c, "wgdone") > 0
    /\ callWg' = [callWg EXCEPT ![c] = @ - 1]
    /\ callWorkers' = Moved(c, "wgdone", -1)
    /\ UNCHANGED <<variant, numWorker, maxIter, callback, pc, i, wg, sem, ctx, ret,
                   workers, records, numErr, mu, calls, report, runVars,
                   collectVars, configVars, exportVars, callMaxIter,
                   callPc, callI, callCtx, callRet>>

\* wg.Wait(); return nil
DoWait(c) ==
    /\ callPc[c] = "wait"
    /\ callWg[c] = 0
    /\ callRet' = [callRet EXCEPT ![c] = "nil"]
    /\ callPc' = [callPc EXCEPT ![c] = "returned"]
    /\ UNCHANGED <<variant, numWorker, maxIter, callback, pc, i, wg, sem, ctx, ret,
                   workers, records, numErr, mu, calls, report, runVars,
                   collectVars, configVars, exportVars, callMaxIter,
                   callI, callWg, callCtx, callWorkers>>

\* The context of call c becomes done while the call is running.
DoCtxDone(c) ==
    /\ callPc[c] # "returned"
    /\ ~callCtx[c]
    /\ callCtx' = [callCtx EXCEPT ![c] = TRUE]
    /\ UNCHANGED <<variant, numWorker, maxIter, callback, pc, i, wg, sem, ctx, ret,
                   workers, records, numErr, mu, calls, report, runVars,
                   collectVars, configVars, exportVars, callMaxIter,
                   callPc, callI, callWg, callRet,
                   callWorkers>>

SharedNext ==
    \E c \in DoCalls :
        \/ DoValidate(c)
        \/ DoLoop(c)
        \/ DoAdd(c)
        \/ DoAcquire(c)
        \/ DoAcquireErr(c)
        \/ DoGo(c)
        \/ DoCallbackReturn(c)
        \/ DoRelease(c)
        \/ DoWgDone(c)
        \/ DoWait(c)
        \/ DoCtxDone(c)

SharedSpec == SharedInit /\ [][SharedNext]_vars

\* ------------------------------------------------- dispatcher-only view
\* One Do call with a callback that terminates and touches no Requester
\* state, under the scheduling the Go runtime provides: every goroutine
\* that can take a step eventually takes one, and a blocked Acquire or Wait
\* returns once it can.  Nothing forces the context to become done.
DispatchInit == Init /\ callback = "noop"

DispatchNext ==
    \/ CtxDone
    \/ Validate
    \/ LoopCheck
    \/ WgAdd
    \/ AcquireOK
    \/ AcquireErr
    \/ Spawn
    \/ Wait
    \/ Start
    \/ NoopReturn
    \/ Release
    \/ WgDone
    \/ MakeReport

DispatchFairness ==
    /\ WF_vars(Validate)
    /\ WF_vars(LoopCheck)
    /\ WF_vars(WgAdd)
    /\ WF_vars(AcquireOK \/ AcquireErr)
    /\ WF_vars(Spawn)
    /\ WF_vars(Wait)
    /\ WF_vars(Start)
    /\ WF_vars(NoopReturn)
    /\ WF_vars(Release)
    /\ WF_vars(WgDone)
    /\ WF_vars(MakeReport)

DispatchSpec == DispatchInit /\ [][DispatchNext]_vars /\ DispatchFairness

\* ================================================================ claims
\* Number of Records with a non-nil Error in a sequence of Records.
NumErrors(recs) == Cardinality({k \in 1..Len(recs) : recs[k] # "ok"})

\* Workers whose callback has started and has not yet appended its Record.
NotYetAppended == NumAt({"clone", "attempt", "lock", "appLoad", "appStore", "safeAppend"})

\* Do was called with arguments that dispatcher.validate must reject
\* because of the worker count or the callback.
TooManyWorkersOrNilCallback ==
    /\ variant = "dispatcher"
    /\ ~PreDispatch
    /\ (numWorker > maxIter \/ callback = "nil")

\* C1: in every reachable state of a Do call, the number of callback
\* invocations that have started and not yet returned is at most numWorker.
C1_ConcurrencyBound == InFlight <= numWorker

C1_Witness == numWorker = MaxWorker /\ InFlight = numWorker /\ ctx # "none"

\* C2: in every state where Do has returned normally, no more iterations
\* will be issued (cap reached or context done), no worker of the call is
\* still alive, every slot is released and the wait-group counter is zero.
C2_ReturnsAfterDrain ==
    ret = "nil" =>
        /\ pc \in {"returned", "done"}
        /\ (~LoopCond \/ ctx # "none")
        /\ NumLive = 0
        /\ sem = 0
        /\ wg = 0

C2_Witness == ret = "nil" /\ calls >= 2 /\ numWorker >= 2

\* C3: with maxIter = M > 0, M >= numWorker, a non-nil callback and a
\* context that is never done, Do returns nil, and when it has returned the
\* callback was invoked exactly M times and every invocation has returned;
\* before that, never more than M invocations were started.
C3_IterationCap ==
    (maxIter > 0 /\ maxIter >= numWorker /\ callback # "nil" /\ ctx = "none") =>
        /\ calls <= maxIter
        /\ (ret # "none" => ret = "nil" /\ calls = maxIter /\ NumLive = 0)

C3_Witness ==
    /\ ret = "nil" /\ ctx = "none"
    /\ maxIter = MaxIter /\ calls = MaxIter /\ numWorker = MaxWorker

\* C4: once the context is done, Do acquires no further semaphore slot,
\* whether or not a slot is free.
C4_NoAdmissionAfterDone == [][ctx # "none" => sem' <= sem]_vars

\* C5: dispatcher.Do called with maxIter = 0 and a non-nil callback is an
\* unbounded run: it returns only once the context is done, and without
\* error.
C5_ZeroIsUnbounded ==
    (variant = "dispatcher" /\ maxIter = 0 /\ callback # "nil" /\ ret # "none") =>
        (ret = "nil" /\ ctx # "none")

\* C6: dispatcher.Do called with numWorker > maxIter or a nil callback
\* starts no work (no wg.Add, no slot acquired, no goroutine, no callback
\* invocation) and returns ErrInvalidValue.
C6_ValidationRejects ==
    TooManyWorkersOrNilCallback =>
        /\ calls = 0 /\ sem = 0 /\ wg = 0 /\ NumLive = 0
        /\ pc \in {"validate", "returned", "done"}
        /\ (ret # "none" => ret = "ErrInvalidValue")

C6_Witness ==
    /\ variant = "dispatcher" /\ callback # "nil"
    /\ maxIter >= 1 /\ numWorker > maxIter
    /\ ret = "ErrInvalidValue"

\* C7: Do never returns context.Canceled or context.DeadlineExceeded; a run
\* whose loop was ended by the context (iterations remained) returns nil;
\* and ErrInvalidValue is returned only by validation, before any work.
C7_CancellationIsNotAnError ==
    /\ ret \in {"none", "nil", "ErrInvalidValue"}
    /\ (ret # "none" /\ calls > 0 => ret = "nil")
    /\ (ret = "ErrInvalidValue" =>
            variant = "dispatcher" /\ validate # "nil" /\ calls = 0 /\ wg = 0 /\ sem = 0)

C7_Witness == ret = "nil" /\ ctx # "none" /\ LoopCond /\ calls >= 1

\* C8: if maxIter is bounded or the context eventually becomes done, then
\* under fair scheduling of terminating callbacks Do eventually returns.
C8_Terminates == ((maxIter # 0) \/ <>(ctx # "none")) => <>(ret # "none")

\* C9: whenever no goroutine is inside appendRecord's critical section,
\* Requester.numErr equals the number of records with a non-nil Error.
C9_NumErrMatchesRecords ==
    (variant = "dispatcher" /\ InCritical = {}) => numErr = NumErrors(records)

C9_Witness ==
    /\ variant = "dispatcher" /\ InCritical = {}
    /\ numWorker >= 2 /\ InFlight >= 1
    /\ Len(records) >= 2 /\ numErr >= 1 /\ numErr < Len(records)

\* C10: every started execution of the per-attempt closure appends exactly
\* one Record, whatever its path: at any time the records appended plus the
\* executions that have not appended yet equal the invocations started, and
\* when the report is built its length equals the number of invocations.
C10_OneRecordPerAttempt ==
    callback = "record" =>
        /\ Len(records) + NotYetAppended = calls
        /\ (report.built => report.length = calls /\ Len(records) = calls)

C10_Witness ==
    /\ callback = "record" /\ variant = "dispatcher" /\ numWorker >= 2
    /\ report.built /\ report.length = MaxIter
    /\ \E a, b \in 1..Len(records) : records[a] = "clone" /\ records[b] = "ok"

\* Run has returned a Report and a nil error.
RunReturnedReport == RunIsCaller /\ pc = "done" /\ report.built

\* The loop of Do was ended by the context while iterations remained.
StoppedByCtx == LoopCond /\ ctx # "none"

\* C11: if the pre-flight request fails, Run returns ErrConnection with the
\* zero Report and the dispatcher is never invoked: Do is not called, no
\* closure runs, no goroutine or slot exists and records stays empty.
C11_PreflightShortCircuit ==
    runErr = "ErrConnection" =>
        /\ pc = "done"
        /\ report = NoReport
        /\ ret = "none"
        /\ calls = 0 /\ NumLive = 0 /\ wg = 0 /\ sem = 0
        /\ records = <<>> /\ numErr = 0
        /\ progress = "none"

C11_Witness == runErr = "ErrConnection" /\ pc = "done" /\ numWorker = MaxWorker

\* C12: no closure has started while the pre-flight phase of Run is not
\* over, and once the report is built the dispatch call has returned, no
\* worker is alive, nobody holds the mutex, and records and numErr are
\* still what the report was built from.
C12_PhasesAreOrdered ==
    callback = "record" =>
        /\ (PreDispatch => calls = 0 /\ NumLive = 0 /\ records = <<>> /\ ret = "none")
        /\ (report.built =>
                /\ ret # "none" /\ pc = "done"
                /\ NumLive = 0 /\ ~mu
                /\ report.length = Len(records)
                /\ report.numErr = numErr)

C12_Witness ==
    /\ RunIsCaller /\ report.built /\ numWorker >= 2
    /\ Len(records) >= 2 /\ ctx # "none"

\* C13: in a run of Requester.Run, every failed attempt is a Record with a
\* non-nil Error counted in numErr; failures do not stop the dispatch (with
\* a context that is never done, all maxIter closures run whatever their
\* outcomes); and Run's error stays nil however many attempts failed.
C13_AttemptErrorsAreAbsorbed ==
    RunIsCaller =>
        /\ (report.built => report.numErr = NumErrors(records))
        /\ (ret = "nil" /\ ctx = "none" => calls = maxIter /\ Len(records) = maxIter)
        /\ (pc = "done" /\ ret = "nil" => runErr = "nil" /\ report.built)

C13_Witness ==
    /\ RunReturnedReport /\ runErr = "nil" /\ ctx = "none"
    /\ Len(records) = MaxIter /\ report.numErr = MaxIter
    /\ \E a, b, c \in 1..Len(records) :
          records[a] = "clone" /\ records[b] = "send" /\ records[c] = "read"

\* C14 as stated: Run returns a non-nil error only when the pre-flight
\* check failed or the dispatcher rejected its configuration.
C14_OnlyPingOrValidationFails ==
    RunIsCaller /\ runErr \notin {"none", "nil"} =>
        runErr \in {"ErrConnection", "ErrInvalidValue"}

\* C14, amended: Run returns a non-nil error only when the request cannot
\* be built (ErrRequest), the pre-flight check fails (ErrConnection), both
\* before the dispatcher is called, or the dispatcher's validation rejects
\* its arguments (ErrInvalidValue); every run whose dispatch returned nil,
\* stopped by the deadline or with failing attempts included, returns nil
\* and a Report built from the records collected so far.
C14_ErrorsOfRun ==
    RunIsCaller =>
        /\ runErr \in {"none", "nil", "ErrRequest", "ErrConnection", "ErrInvalidValue"}
        /\ (runErr \in {"ErrRequest", "ErrConnection"} => ret = "none" /\ calls = 0)
        /\ (runErr = "ErrInvalidValue" => validate # "nil" /\ calls = 0)
        /\ (runErr \notin {"none", "nil"} => report = NoReport)
        /\ (pc = "done" /\ ret = "nil" =>
                runErr = "nil" /\ report.built /\ report.length = Len(records))

C14_Witness ==
    /\ RunReturnedReport /\ runErr = "nil"
    /\ ctx = "DeadlineExceeded" /\ StoppedByCtx
    /\ Len(records) >= 1 /\ report.numErr = Len(records)

\* C15: when Run returns a Report, its error tells how the run ended: nil
\* exactly when all iterations were issued, and not nil when the context
\* cut the loop short.
C15_EndIsDistinguishable == RunReturnedReport => (runErr = "nil" <=> ~StoppedByCtx)

\* C16: once the caller of Run has cancelled its context, the context that
\* governs the dispatch is done.
C16_InterruptEndsContext ==
    (RunIsCaller /\ interrupted /\ ~PreDispatch /\ pc # "done") => ctx # "none"

\* C17: with GlobalTimeout = 0 the context of the run never reports an
\* expired deadline, and a run that returns a Report has issued all
\* maxIter requests.
C17_ZeroTimeoutIsNoDeadline ==
    (RunIsCaller /\ globalTimeout = 0) =>
        /\ ctx # "DeadlineExceeded"
        /\ (report.built => calls = maxIter)

\* C18: every worker of Requester.Run that is sending a request sends a
\* request value made by its own execution of the closure, with a body
\* stream of its own when the template has a body; the template and its
\* body are never what a worker sends.
C18_AttemptsShareNothing ==
    RunIsCaller =>
        \A w \in Live :
            w.pc = "attempt" =>
                /\ w.req = "clone"
                /\ w.body = (IF hasBody THEN "fresh" ELSE "none")

C18_Witness == RunIsCaller /\ hasBody /\ NumAt({"attempt"}) >= 2

\* C19: whenever Run has returned and the progress goroutine has not
\* exited yet, the flag it polls (r.done) is set, so that its next check
\* ends it.
C19_ProgressGoroutineCanExit ==
    (RunIsCaller /\ pc = "done" /\ progress = "running") => rdone

\* The records of a sequence with a non-nil Error, and those with a nil one.
Failed(recs) == SelectSeq(recs, LAMBDA r : r.error # "nil")

Succeeded(recs) == SelectSeq(recs, LAMBDA r : r.error = "nil")

\* C20: the Report that Collect returns has Length = Success + Fail =
\* the number of records consumed, Success being the number of records
\* with a nil Error and Fail the number of the others.
C20_ReportTotals ==
    cpc = "done" =>
        /\ rep.length = Len(input)
        /\ rep.length = rep.success + rep.fail
        /\ rep.fail = Len(Failed(input))
        /\ rep.success = Len(Succeeded(input))

\* C21: Collect partitions what it consumes: at any time Report.Records is
\* the sequence of received records with a nil Error, in the order
\* received, Fail is the number of received records with a non-nil Error,
\* and each received record is in exactly one of the two; at return this
\* holds for the whole input.
C21_Partition ==
    cpc # "idle" =>
        /\ rep.recs = Succeeded(received)
        /\ rep.fail = Len(Failed(received))
        /\ Len(rep.recs) + rep.fail = Len(received)
        /\ (cpc = "done" => rep.recs = Succeeded(input) /\ rep.fail = Len(Failed(input)))

C21_Witness ==
    /\ cpc = "done" /\ Len(input) = MaxRecords
    /\ rep.fail >= 1 /\ Len(rep.recs) >= 2 /\ rep.recs[1] # rep.recs[2]

\* C26: Collect returns only when r.Records is closed, and then it has
\* received every record that was sent, each once and in order; while the
\* channel is open Collect has not returned.
C26_ReturnsAfterClose ==
    /\ (cpc = "done" => chanClosed /\ received = input /\ ch = <<>> /\ pending = <<>>)
    /\ (cpc # "idle" /\ ~chanClosed => cpc = "range")
    /\ (cpc # "idle" => received \o ch \o pending = input)

C26_Witness ==
    /\ cpc = "done" /\ chanClosed
    /\ Len(received) = MaxRecords /\ received[1] # received[2]

\* The names of fieldsArg.
Listed == {fieldsArg[k] : k \in 1..Len(fieldsArg)}

\* C24: when Override returns, every field other than the header is the
\* argument's if its name is listed and the receiver's if not; the header
\* is the receiver's if "header" is not listed; unknown names change
\* nothing; with no known name listed the result equals the receiver.
C24_OverrideFrame ==
    cfgpc = "returned" =>
        /\ \A f \in FieldNames \ {"header"} :
              cfg[f] = IF f \in Listed THEN other[f] ELSE entry[f]
        /\ ("header" \notin Listed => cfg.header = entry.header)
        /\ (Listed \cap FieldNames = {} => cfg = entry)

C24_Witness ==
    /\ cfgpc = "returned" /\ Len(fieldsArg) = MaxFields
    /\ "unknown" \in Listed /\ "requests" \in Listed
    /\ cfg.requests = other.requests /\ cfg.concurrency = entry.concurrency

\* C25: when Override returns and "header" was listed, the result's header
\* has, for every key of the new header, the new value; for every other key
\* of the old header, the old value; and no other key.  A nil or empty new
\* header leaves the header's entries as they were.
C25_HeaderMerge ==
    (cfgpc = "returned" /\ "header" \in Listed) =>
        /\ DOMAIN cfg.header.map = DOMAIN entry.header.map \cup DOMAIN other.header.map
        /\ \A k \in DOMAIN other.header.map : cfg.header.map[k] = other.header.map[k]
        /\ \A k \in DOMAIN entry.header.map \ DOMAIN other.header.map :
              cfg.header.map[k] = entry.header.map[k]
        /\ (DOMAIN other.header.map = {} => cfg.header.map = entry.header.map)
        /\ (other.header.isNil => cfg.header = entry.header)

C25_Witness ==
    /\ cfgpc = "returned" /\ "header" \in Listed
    /\ DOMAIN entry.header.map = HeaderKeys
    /\ DOMAIN other.header.map = {"key1"}
    /\ cfg.header.map["key0"] = "oldval" /\ cfg.header.map["key1"] = "newval"

\* C22: a run of request.Do with Requests = -1 ends only once the context
\* is done, and has then made at least one request.
C22_MinusOneRunsUntilDeadline ==
    (variant = "semimpl" /\ callback = "record" /\ maxIter = -1 /\ ret # "none") =>
        (ctx # "none" /\ calls >= 1)

\* Every field of c other than Requests and Concurrency passes Validate.
OtherwiseValid(c) ==
    /\ c.url = "http://a.b"
    /\ c.interval >= 0 /\ c.requestTimeout >= 0 /\ c.globalTimeout >= 0
    /\ c.out = <<"json">>

\* C23: Validate accepts only configs with Concurrency >= 1; it accepts
\* every otherwise valid config with Requests = -1 (unbounded) and
\* Concurrency >= 1; and it rejects a bounded config whose Concurrency
\* exceeds Requests.
C23_ConcurrencyBoundOnlyWhenBounded ==
    cfgpc = "validated" =>
        /\ (verrs = {} => cfg.concurrency >= 1)
        /\ (cfg.requests > 0 /\ cfg.concurrency > cfg.requests => verrs # {})
        /\ (cfg.requests = -1 /\ cfg.concurrency >= 1 /\ OtherwiseValid(cfg) => verrs = {})

\* Goroutines that hold a semaphore slot: spawned and not yet past Release.
HoldingPcs == BodyPcs \cup {"spawned", "returned"}

\* A slot was acquired and its goroutine is not spawned yet.
PendingSpawn == IF pc = "spawn" THEN 1 ELSE 0

\* C27: in every run of Do with maxIter > 0, done context or not, at most
\* maxIter goroutines are spawned and at most maxIter callbacks invoked;
\* every spawned goroutine has invoked the callback or is about to; every
\* held slot belongs to exactly one spawned goroutine or to the one about
\* to be spawned; and when Do returns nil every spawned goroutine has
\* invoked the callback.
C27_SpawnsMatchAcquisitions ==
    (maxIter > 0 /\ ~PreDispatch) =>
        /\ i <= maxIter
        /\ calls <= maxIter
        /\ calls + NumAt({"spawned"}) = i
        /\ sem = NumAt(HoldingPcs) + PendingSpawn
        /\ (ret = "nil" => calls = i)

C27_Witness ==
    /\ maxIter = MaxIter /\ numWorker = MaxWorker
    /\ ret = "nil" /\ ctx # "none" /\ calls >= 2 /\ calls < maxIter

\* C28: a slot is given back only by a goroutine whose callback has
\* returned, one slot at a time; a goroutine ends only after giving its
\* slot back, and signals the wait group as it ends; a callback invocation
\* starts exactly when a spawned goroutine starts running and ends only by
\* returning; and a done context never keeps a spawned goroutine from
\* invoking the callback.
C28_WorkerProtocol ==
    [][ /\ (sem' < sem =>
              /\ sem' = sem - 1
              /\ NumAt({"returned"})' = NumAt({"returned"}) - 1
              /\ NumAt({"released"})' = NumAt({"released"}) + 1)
        /\ (NumLive' < NumLive =>
              /\ wg' = wg - 1
              /\ NumAt({"released"})' = NumAt({"released"}) - 1)
        /\ (NumAt({"spawned"})' < NumAt({"spawned"}) =>
              /\ InFlight' = InFlight + 1
              /\ calls' = Min(calls + 1, CallCap))
        /\ (InFlight' < InFlight => NumAt({"returned"})' = NumAt({"returned"}) + 1)
        /\ (NumAt({"spawned"}) > 0 => ENABLED Start)
      ]_vars

C28_Witness ==
    /\ ctx # "none" /\ numWorker = MaxWorker
    /\ NumAt({"released"}) >= 1 /\ InFlight >= 1 /\ calls >= 2

\* C29: in a run of Requester.Run whose context is done before Do is
\* called, no invocation was admitted before the context was done, so at
\* most numWorker callback invocations are ever started.
C29_BoundedAfterDone ==
    (RunIsCaller /\ globalTimeout = 0) => calls <= numWorker

C31_EveryAttemptSleeps ==
    [][(RunIsCaller /\ InFlight' < InFlight) =>
            NumAt({"sleep"})' = NumAt({"sleep"}) - 1]_vars

\* C32: a sleeping attempt holds its slot: the sleeping workers are among
\* the slot holders, a slot is never given back in a step that takes a
\* worker out of its sleep or out of its closure, and when numWorker
\* attempts are sleeping no admission is possible.
C32_SlotHeldDuringSleep ==
    [][RunIsCaller =>
          /\ NumAt({"sleep"}) <= sem
          /\ (sem' < sem =>
                 /\ NumAt({"sleep"})' = NumAt({"sleep"})
                 /\ InFlight' = InFlight)
          /\ (NumAt({"sleep"}) = numWorker => ~ENABLED AcquireOK)
      ]_vars

C32_Witness ==
    /\ RunIsCaller /\ numWorker = MaxWorker /\ pc = "acquire"
    /\ NumAt({"sleep"}) = numWorker /\ ctx = "none"

\* The state-printing goroutine is about to read r.done; it never holds mu.
ReadsDoneUnlocked == progress = "running"

\* Run is about to write r.done = true; it does not hold mu.
WritesDoneUnlocked == RunIsCaller /\ pc = "returned" /\ RunErr = "nil"

\* C33: no field of the Requester can be read by one goroutine and written
\* by another at the same time outside the mutex; for r.done: the read by
\* the state-printing goroutine and the write by Run are never both due.
C33_SharedStateIsGuarded == ~(ReadsDoneUnlocked /\ WritesDoneUnlocked)

\* C34: every step leaves records as it is or adds exactly one element at
\* its end: the previous contents are a prefix of the new contents.
C34_AppendOnly ==
    [][\/ records' = records
       \/ /\ Len(records') = Len(records) + 1
          /\ SubSeq(records', 1, Len(records)) = records]_vars

C34_Witness ==
    /\ RunIsCaller /\ numWorker >= 2 /\ Len(records) = MaxIter
    /\ records[1] # records[2] /\ InFlight = 0

\* C36: whenever Do has returned, with nil or with ErrInvalidValue, after
\* a failed Acquire or not, no slot of the semaphore is held and no
\* goroutine exists that could still hold one.
C36_SemaphoreFreeAtReturn ==
    ret # "none" => sem = 0 /\ NumAt(HoldingPcs) = 0 /\ PendingSpawn = 0

C36_Witness ==
    /\ ret = "nil" /\ ctx # "none" /\ LoopCond
    /\ numWorker = MaxWorker /\ calls >= numWorker

\* C38: when Override returns, the receiver is what it was at the call,
\* header map entries included.
C38_ReceiverUnchanged == cfgpc = "returned" => recv = entry

\* The export calls that failed, in call order.
FailedExports == SelectSeq(results, LAMBDA r : r.err # "nil")

\* C35: Export attempts every selected strategy it knows, whatever the earlier
\* ones returned. It returns ErrInvalidStrategy exactly when no known strategy
\* is selected; otherwise it returns an ExportError exactly when some strategy
\* failed, listing exactly the errors of the failed ones in call order, and
\* nil exactly when every selected strategy succeeded.
C35_ExportTriesEveryStrategy ==
    epc = "returned" =>
        /\ {results[k].strategy : k \in 1..Len(results)} = out \cap Strategies
        /\ Len(results) = Cardinality(out \cap Strategies)
        /\ (eret = "ErrInvalidStrategy") <=> (out \cap Strategies = {})
        /\ (eret = "ExportError") <=> (FailedExports # <<>>)
        /\ eret = "ExportError" =>
              errs = [k \in 1..Len(FailedExports) |-> FailedExports[k].err]
        /\ (eret = "nil") <=> (out \cap Strategies # {} /\ FailedExports = <<>>)

\* Export went on to Benchttp after the JSON file failed, and reports both
\* failures.
C35_Witness ==
    /\ epc = "returned"
    /\ eret = "ExportError"
    /\ out = OutChoices
    /\ Len(errs) = 2


\* Callbacks of both calls that have started and not returned.
TotalInFlight == At(1, "callback") + At(2, "callback")

\* C37: two Do calls running on the same Dispatcher value have its gate in
\* common: the callbacks in flight over both calls never exceed numWorker,
\* the slots taken through both calls are the slots of the one semaphore,
\* and a call that has returned has no goroutine of its own left.
C37_SharedGate ==
    /\ TotalInFlight <= numWorker
    /\ sem = SlotsOf(1) + SlotsOf(2)
    /\ sem <= numWorker
    /\ \A c \in DoCalls :
          callPc[c] = "returned" => callWorkers[c] = NoWorkers /\ SlotsOf(c) = 0

\* Call 1 has returned after its last callback while the callbacks of call 2
\* fill the gate and call 2 waits in Acquire.
C37_Witness ==
    /\ numWorker = MaxWorker
    /\ callPc[1] = "returned"
    /\ callRet[1] = "nil"
    /\ callI[1] = callMaxIter[1]
    /\ ~callCtx[1]
    /\ At(2, "callback") = numWorker
    /\ callPc[2] = "acquire"
    /\ ~ENABLED DoAcquire(2)


====
